---------------------------- MODULE Spec2Model ----------------------------
(* A model of the to-do application in src/app.py: the Task table, the    *)
(* request handlers that change it (add, complete, delete, edit) and the  *)
(* handlers that read it (index, dashboard, incomplete_tasks).            *)
(*                                                                        *)
(* Conventions.  A date is an integer day number.  An optional date (a    *)
(* nullable column, Python's None) is a sequence: <<>> is None and <<d>>  *)
(* is the date d.  A text is a sequence of one-character strings.  A      *)
(* listing is a sequence of task ids in display order.  created_at and    *)
(* the average completion time computed from it are left out: no handler  *)
(* modelled here branches on them.                                        *)
EXTENDS Integers, Sequences, FiniteSets

(* The field names of the records below (the columns of Task, the fields  *)
(* of a form, a request and a response), each with its rank.  TLC keeps   *)
(* a record's fields in the order in which their names first occur in the *)
(* module; every record below lists its fields by ascending rank, so it   *)
(* is written in the form TLC keeps it in.                                *)
FieldRank ==
    [High |-> 1, Low |-> 2, Medium |-> 3, code |-> 4, completed |-> 5,
     completed_at |-> 6, completions_chart |-> 7, day |-> 8,
     due_date |-> 9, due_soon_tasks |-> 10, due_today_tasks |-> 11,
     error |-> 12, flash |-> 13, form |-> 14, id |-> 15, incomplete |-> 16,
     incomplete_tasks |-> 17, kind |-> 18, location |-> 19, method |-> 20,
     notify_tasks |-> 21, num_due_soon |-> 22, num_due_today |-> 23,
     num_overdue |-> 24, op |-> 25, overdue_tasks |-> 26, page |-> 27,
     priority |-> 28, priority_data |-> 29, resp |-> 30, search |-> 31,
     soon_threshold |-> 32, sort |-> 33, status |-> 34, streak |-> 35,
     task |-> 36, tasks |-> 37, today |-> 38, total |-> 39,
     total_incomplete |-> 40, type |-> 41]

VARIABLES tasks, today, req, resp

vars == <<tasks, today, req, resp>>

-----------------------------------------------------------------------------
(* Bounds of the model.                                                   *)

MaxId == 2

MaxDay == 1

MaxDashDay == 8

(* Program constants.                                                     *)

WindowDays == 7

SoonDays == 1

-----------------------------------------------------------------------------
(* Values.                                                                *)

None == <<>>

Priorities == {"High", "Medium", "Low"}

EmptyDue == [kind |-> "empty"]

BadDue == [kind |-> "bad"]

DateDue(d) == [day |-> d, kind |-> "date"]

Max(S) == CHOOSE x \in S : \A y \in S : y <= x

(* The ids of S in ascending order: the order in which the table hands    *)
(* out its rows when a query has no ORDER BY.                             *)
RECURSIVE IdSeq(_)
IdSeq(S) == IF S = {} THEN <<>> ELSE IdSeq(S \ {Max(S)}) \o <<Max(S)>>

Range(seq) == {seq[i] : i \in 1..Len(seq)}

-----------------------------------------------------------------------------
(* Text.                                                                  *)

Lower(c) == CASE c = "A" -> "a" [] c = "B" -> "b" [] OTHER -> c

LowerStr(s) == [i \in 1..Len(s) |-> Lower(s[i])]

IsSpace(c) == c = " "

RECURSIVE LStrip(_)
LStrip(s) == IF s # <<>> /\ IsSpace(Head(s)) THEN LStrip(Tail(s)) ELSE s

RECURSIVE RStrip(_)
RStrip(s) ==
    IF s # <<>> /\ IsSpace(s[Len(s)]) THEN RStrip(SubSeq(s, 1, Len(s) - 1)) ELSE s

Strip(s) == RStrip(LStrip(s))

(* SQL LIKE: % matches any run of characters, _ any one character.        *)
RECURSIVE LikeMatch(_, _)
LikeMatch(p, s) ==
    IF p = <<>> THEN s = <<>>
    ELSE IF Head(p) = "%"
         THEN LikeMatch(Tail(p), s) \/ (s # <<>> /\ LikeMatch(p, Tail(s)))
         ELSE /\ s # <<>>
              /\ (Head(p) = "_" \/ Head(p) = Head(s))
              /\ LikeMatch(Tail(p), Tail(s))

ilike(column, pattern) == LikeMatch(LowerStr(pattern), LowerStr(column))

(* Python's truth value of a string.                                      *)
TruthyMut(s) == TRUE

Truthy(s) == s # <<>>

-----------------------------------------------------------------------------
(* The Task table.                                                        *)

NewTask(text, priority, due) ==
    [completed |-> FALSE, completed_at |-> None, due_date |-> due,
     priority |-> priority, task |-> text]

(* The key an INTEGER PRIMARY KEY column gives a new row.                 *)
NewId(store) == IF DOMAIN store = {} THEN 1 ELSE Max(DOMAIN store) + 1

Insert(store, t) ==
    [i \in DOMAIN store \cup {NewId(store)} |->
        IF i \in DOMAIN store THEN store[i] ELSE t]

Remove(store, id) == [i \in DOMAIN store \ {id} |-> store[i]]

(* get_or_404: the row with this id, <<id>>, or <<>> (a 404 response).    *)
get_or_404Mut(store, id) ==
    IF id \in DOMAIN store THEN <<id>>
    ELSE IF DOMAIN store = {} THEN <<>> ELSE <<Max(DOMAIN store)>>

get_or_404(store, id) == IF id \in DOMAIN store THEN <<id>> ELSE <<>>

IsPastMut(d, day) == d < day - 1

IsPast(d, day) == d < day

NotFound == [code |-> 404]

Redirect(to, flash) == [code |-> 302, flash |-> flash, location |-> to]

ServerError(e) == [code |-> 500, error |-> e]

Init ==
    /\ tasks = <<>>
    /\ today = 0
    /\ req = [op |-> "none"]
    /\ resp = [code |-> 0]

(* The calendar advances by a day.                                        *)
Tick ==
    /\ today < MaxDay
    /\ today' = today + 1
    /\ UNCHANGED <<tasks, req, resp>>

-----------------------------------------------------------------------------
(* POST /add.  form = [task, priority, due_date]; due_date is EmptyDue    *)
(* (absent or ''), DateDue(d) (a well-formed %Y-%m-%d date) or BadDue (a  *)
(* string strptime rejects with ValueError).                              *)

AddOutcome(store, form, day) ==
    IF form.due_date.kind = "bad"
    THEN [resp |-> ServerError("ValueError"), tasks |-> store]
    ELSE IF form.due_date.kind = "date" /\ IsPast(form.due_date.day, day)
    THEN [resp |-> Redirect("index", "danger"), tasks |-> store]
    ELSE LET due == IF form.due_date.kind = "date"
                    THEN <<form.due_date.day>> ELSE None
         IN  IF Truthy(form.task)
             THEN [resp |-> Redirect("index", "none"),
                   tasks |-> Insert(store, NewTask(form.task, form.priority, due))]
             ELSE [resp |-> Redirect("index", "none"), tasks |-> store]

add(form) ==
    LET o == AddOutcome(tasks, form, today)
    IN  /\ o.tasks = tasks \/ NewId(tasks) <= MaxId
        /\ tasks' = o.tasks
        /\ resp' = o.resp
        /\ req' = [form |-> form, op |-> "add"]
        /\ UNCHANGED today

-----------------------------------------------------------------------------
(* GET /complete/<id>.  now is datetime.utcnow().date(), which is the     *)
(* local date.today() or a neighbour of it, by the server's UTC offset.   *)

UtcDates(day) == {day - 1, day, day + 1}

CompletedAtMut(completed, now) == <<now>>

CompletedAt(completed, now) == IF completed THEN <<now>> ELSE None

Toggle(t, now) ==
    [t EXCEPT !.completed = ~t.completed,
              !.completed_at = CompletedAt(~t.completed, now)]

complete(id, now) ==
    LET found == get_or_404(tasks, id)
    IN  /\ now \in UtcDates(today)
        /\ IF found = <<>>
           THEN /\ tasks' = tasks
                /\ resp' = NotFound
           ELSE /\ tasks' = [tasks EXCEPT ![found[1]] = Toggle(tasks[found[1]], now)]
                /\ resp' = Redirect("index", "none")
        /\ req' = [id |-> id, op |-> "complete"]
        /\ UNCHANGED today

(* GET /delete/<id>.                                                      *)
delete(id) ==
    LET found == get_or_404(tasks, id)
    IN  /\ IF found = <<>>
           THEN /\ tasks' = tasks
                /\ resp' = NotFound
           ELSE /\ tasks' = Remove(tasks, found[1])
                /\ resp' = Redirect("index", "none")
        /\ req' = [id |-> id, op |-> "delete"]
        /\ UNCHANGED today

-----------------------------------------------------------------------------
(* GET and POST /edit/<task_id>.  The handler assigns to the loaded row   *)
(* object; the table changes only at db.session.commit().  A request that *)
(* ends without a commit leaves the table as it was: the session and its  *)
(* pending attribute changes are dropped when the request ends.           *)

Commit(store, id, obj) == [store EXCEPT ![id] = obj]

RollbackMut(store, id, obj) == [store EXCEPT ![id] = obj]

Rollback(store, id, obj) == store

EditOutcome(store, id, form, day) ==
    LET obj == [store[id] EXCEPT !.task = form.task, !.priority = form.priority]
    IN  IF form.due_date.kind = "bad"
        THEN [resp |-> ServerError("ValueError"), tasks |-> Rollback(store, id, obj)]
        ELSE IF form.due_date.kind = "date" /\ IsPast(form.due_date.day, day)
        THEN [resp |-> Redirect("edit", "danger"), tasks |-> Rollback(store, id, obj)]
        ELSE LET due == IF form.due_date.kind = "date"
                        THEN <<form.due_date.day>> ELSE None
             IN  [resp |-> Redirect("index", "success"),
                  tasks |-> Commit(store, id, [obj EXCEPT !.due_date = due])]

edit(task_id, method, form) ==
    LET found == get_or_404(tasks, task_id)
    IN  /\ IF found = <<>>
           THEN /\ tasks' = tasks
                /\ resp' = NotFound
           ELSE IF method = "POST"
           THEN LET o == EditOutcome(tasks, found[1], form, today)
                IN  /\ tasks' = o.tasks
                    /\ resp' = o.resp
           ELSE /\ tasks' = tasks
                /\ resp' = [code |-> 200, page |-> "edit", task |-> tasks[found[1]]]
        /\ req' = [form |-> form, id |-> task_id, method |-> method, op |-> "edit"]
        /\ UNCHANGED today

-----------------------------------------------------------------------------
(* Sorting.  sorted() is stable; a key is a pair of integers compared as  *)
(* Python compares tuples, False before True.                             *)

BoolKey(b) == IF b THEN 1 ELSE 0

KeyLess(a, b) == a[1] < b[1] \/ (a[1] = b[1] /\ a[2] < b[2])

RECURSIVE sorted(_, _)
sorted(seq, key) ==
    IF seq = <<>> THEN <<>>
    ELSE LET front == sorted(SubSeq(seq, 1, Len(seq) - 1), key)
             x == seq[Len(seq)]
             n == Cardinality({i \in 1..Len(front) : ~KeyLess(key[x], key[front[i]])})
         IN  SubSeq(front, 1, n) \o <<x>> \o SubSeq(front, n + 1, Len(front))

priority_order == [High |-> 1, Low |-> 3, Medium |-> 2]

(* The type of the first component of the due-date sort key:              *)
(* t.due_date or '9999-12-31' is a date, or the string when due_date is   *)
(* None.  Python 3 orders a date and a str with TypeError.                *)
DueKeyType(t) == IF t.due_date # None THEN "date" ELSE "str"

DueKeyValue(t) == IF t.due_date # None THEN t.due_date[1] ELSE 0

-----------------------------------------------------------------------------
(* Notification buckets.                                                  *)

IsOverdue(d, day) == d < day

IsDueToday(d, day) == d = day

IsDueSoonMut(d, day) == day <= d /\ d <= day + SoonDays

IsDueSoon(d, day) == day < d /\ d <= day + SoonDays

Pending(store) ==
    SelectSeq(IdSeq(DOMAIN store), LAMBDA i : ~store[i].completed)

Notification(store, i, type) ==
    [due_date |-> store[i].due_date[1], id |-> i, task |-> store[i].task, type |-> type]

-----------------------------------------------------------------------------
(* GET /?status=..&sort=..&search=..                                      *)

Filtered(store, status, search) ==
    SelectSeq(IdSeq(DOMAIN store),
              LAMBDA i :
                /\ status = "completed" => store[i].completed
                /\ status = "pending" => ~store[i].completed
                /\ Truthy(search) => ilike(store[i].task, <<"%">> \o search \o <<"%">>))

(* The listing, or the exception the sort raises.  The key function runs  *)
(* on every row: priority_order[t.priority] raises KeyError on a priority *)
(* it does not hold.  Two due-date keys are ordered only when both are    *)
(* dates or both the string; sorting rows of both kinds has to order two  *)
(* of them and raises TypeError.  The exception is not caught: the        *)
(* request ends in a 500 response and no page.                            *)
Listing(store, rows, sort) ==
    IF sort = "priority"
    THEN IF \E i \in Range(rows) : store[i].priority \notin DOMAIN priority_order
         THEN [error |-> "KeyError"]
         ELSE [tasks |-> sorted(rows, [i \in Range(rows) |->
                            <<priority_order[store[i].priority],
                              BoolKey(store[i].completed)>>])]
    ELSE IF sort = "due_date"
    THEN IF \E i, j \in Range(rows) : DueKeyType(store[i]) # DueKeyType(store[j])
         THEN [error |-> "TypeError"]
         ELSE [tasks |-> sorted(rows, [i \in Range(rows) |->
                            <<DueKeyValue(store[i]), BoolKey(store[i].completed)>>])]
    ELSE IF sort = "created"
    THEN [tasks |-> sorted(rows, [i \in Range(rows) |-> <<i, 0>>])]
    ELSE [tasks |-> rows]

IndexPage(store, status, sort, search, day) ==
    LET listing == Listing(store, Filtered(store, status, Strip(search)), sort)
        pending == Pending(store)
        overdue == SelectSeq(pending, LAMBDA i :
                      store[i].due_date # None /\ IsOverdue(store[i].due_date[1], day))
        due_today == SelectSeq(pending, LAMBDA i :
                      store[i].due_date # None /\ IsDueToday(store[i].due_date[1], day))
        due_soon == SelectSeq(pending, LAMBDA i :
                      store[i].due_date # None /\ IsDueSoon(store[i].due_date[1], day))
    IN  IF "error" \in DOMAIN listing
        THEN ServerError(listing.error)
        ELSE [code |-> 200, notify_tasks |->
                   [k \in 1..Len(overdue) |-> Notification(store, overdue[k], "overdue")]
                \o [k \in 1..Len(due_today) |-> Notification(store, due_today[k], "today")]
                \o [k \in 1..Len(due_soon) |-> Notification(store, due_soon[k], "soon")],
              num_due_soon |-> Len(due_soon),
              num_due_today |-> Len(due_today),
              num_overdue |-> Len(overdue),
              page |-> "index",
              soon_threshold |-> day + SoonDays,
              tasks |-> listing.tasks,
              today |-> day]

index(status, sort, search) ==
    /\ resp' = IndexPage(tasks, status, sort, search, today)
    /\ req' = [op |-> "index", search |-> search, sort |-> sort, status |-> status]
    /\ UNCHANGED <<tasks, today>>

-----------------------------------------------------------------------------
(* GET /incomplete-tasks.                                                 *)

DateMax == 3652059

(* The if / elif chain of the counting loop: the bucket of one due date.  *)
BucketOf(d, day) ==
    IF d < day THEN "overdue"
    ELSE IF d = day THEN "today"
    ELSE IF d <= day + SoonDays THEN "soon"
    ELSE "none"

CountBucket(store, rows, day, bucket) ==
    Cardinality({k \in 1..Len(rows) :
        /\ store[rows[k]].due_date # None
        /\ BucketOf(store[rows[k]].due_date[1], day) = bucket})

IncompletePage(store, day) ==
    LET rows == Pending(store)
    IN  IF rows = <<>>
        THEN [code |-> 200, due_soon_tasks |-> 0, due_today_tasks |-> 0,
              incomplete_tasks |-> <<>>, overdue_tasks |-> 0, page |-> "incomplete_tasks",
              soon_threshold |-> day + SoonDays, today |-> day, total_incomplete |-> 0]
        ELSE [code |-> 200, due_soon_tasks |-> CountBucket(store, rows, day, "soon"),
              due_today_tasks |-> CountBucket(store, rows, day, "today"),
              incomplete_tasks |-> sorted(rows, [i \in Range(rows) |->
                   <<IF store[i].priority \in DOMAIN priority_order
                     THEN priority_order[store[i].priority] ELSE 4,
                     IF store[i].due_date # None THEN store[i].due_date[1] ELSE DateMax>>]),
              overdue_tasks |-> CountBucket(store, rows, day, "overdue"),
              page |-> "incomplete_tasks",
              soon_threshold |-> day + SoonDays,
              today |-> day,
              total_incomplete |-> Len(rows)]

incomplete_tasks ==
    /\ resp' = IncompletePage(tasks, today)
    /\ req' = [op |-> "incomplete_tasks"]
    /\ UNCHANGED <<tasks, today>>

-----------------------------------------------------------------------------
(* GET /dashboard.  completion_rate and avg_completion_time are floating  *)
(* point results no claim reads; they are left out of the response.       *)

last_7_days(day) == [k \in 1..WindowDays |-> day - (WindowDays - k)]

completions_per_day(store, d) ==
    Cardinality({i \in DOMAIN store :
        store[i].completed_at # None /\ store[i].completed_at[1] = d})

(* The streak loop over reversed(last_7_days), from position k down.      *)
RECURSIVE StreakMut(_, _, _)
StreakMut(store, days, k) ==
    IF k = 0 THEN 0
    ELSE IF completions_per_day(store, days[k]) > 0
         THEN 1 + StreakMut(store, days, k - 1)
         ELSE StreakMut(store, days, k - 1)

RECURSIVE Streak(_, _, _)
Streak(store, days, k) ==
    IF k = 0 THEN 0
    ELSE IF completions_per_day(store, days[k]) > 0
         THEN 1 + Streak(store, days, k - 1)
         ELSE 0

DashboardPage(store, day) ==
    LET days == last_7_days(day)
        completed == Cardinality({i \in DOMAIN store : store[i].completed})
    IN  [code |-> 200, completed |-> completed,
         completions_chart |-> [k \in 1..WindowDays |-> completions_per_day(store, days[k])],
         incomplete |-> Cardinality(DOMAIN store) - completed,
         page |-> "dashboard",
         priority_data |-> [p \in Priorities |->
              Cardinality({i \in DOMAIN store : store[i].priority = p})],
         streak |-> Streak(store, days, WindowDays),
         total |-> Cardinality(DOMAIN store)]

dashboard ==
    /\ resp' = DashboardPage(tasks, today)
    /\ req' = [op |-> "dashboard"]
    /\ UNCHANGED <<tasks, today>>

-----------------------------------------------------------------------------
(* Requests.  Ids range over the ids the table can hold and one it never  *)
(* holds.                                                                 *)

Ids == 1..(MaxId + 1)

Form(text, priority, due) == [due_date |-> due, priority |-> priority, task |-> text]

NoForm == Form(<<>>, "Medium", EmptyDue)

FormTexts == {<<>>, <<" ">>, <<"a">>}

FormPriorities == {"Medium", "Urgent"}

(* Due dates from yesterday on, an empty field and a malformed one.       *)
FormDues == {EmptyDue, BadDue} \cup {DateDue(d) : d \in (-1)..MaxDay}

(* Creation: every kind of add form, and delete.                          *)
Next ==
    \/ \E text \in FormTexts, p \in FormPriorities, due \in FormDues :
          add(Form(text, p, due))
    \/ \E id \in Ids : delete(id)

Spec == Init /\ [][Next]_vars

EditTexts == {<<"a">>, <<"b">>}

EditDues == {EmptyDue, BadDue, DateDue(-1), DateDue(0)}

(* Editing: one kind of task, and every kind of edit form.                *)
NextEdit ==
    \/ add(Form(<<"a">>, "Medium", EmptyDue))
    \/ \E id \in Ids, text \in EditTexts, p \in FormPriorities, due \in EditDues :
          edit(id, "POST", Form(text, p, due))
    \/ \E id \in Ids : edit(id, "GET", NoForm)

SpecEdit == Init /\ [][NextEdit]_vars

(* Completion: one kind of task, toggled at every UTC date the server     *)
(* can read, edited, deleted and addressed by ids that do not exist.      *)
NextToggle ==
    \/ add(Form(<<"a">>, "Medium", EmptyDue))
    \/ \E id \in Ids, now \in UtcDates(today) : complete(id, now)
    \/ \E id \in Ids : edit(id, "POST", Form(<<"b">>, "Low", EmptyDue))
    \/ \E id \in Ids : edit(id, "GET", NoForm)
    \/ \E id \in Ids : delete(id)
    \/ Tick

SpecToggle == Init /\ [][NextToggle]_vars

(* Sorting by priority: texts that differ in case, every priority a form  *)
(* can carry, both completion states, every status filter and searches    *)
(* with surrounding space and upper case.                                 *)
SortTexts == {<<"A">>, <<"b">>}

SortPriorities == {"High", "Medium", "Low", "Urgent"}

Statuses == {"all", "completed", "pending"}

Searches == {<<>>, <<" ", "a">>, <<"B">>}

NextPriority ==
    \/ \E text \in SortTexts, p \in SortPriorities : add(Form(text, p, EmptyDue))
    \/ \E id \in 1..MaxId : complete(id, today)
    \/ \E status \in Statuses, search \in Searches : index(status, "priority", search)

SpecPriority == Init /\ [][NextPriority]_vars

(* Sorting by due date: tasks with and without a due date.                *)
SortDues == {EmptyDue} \cup {DateDue(d) : d \in 0..MaxDay}

NextDue ==
    \/ \E due \in SortDues : add(Form(<<"a">>, "Medium", due))
    \/ \E id \in 1..MaxId : complete(id, today)
    \/ \E status \in Statuses : index(status, "due_date", <<>>)

SpecDue == Init /\ [][NextDue]_vars

(* Notifications: due dates up to two days ahead, completion, and the     *)
(* calendar, which is what makes a stored due date overdue.               *)
NotifyDues == {EmptyDue} \cup {DateDue(d) : d \in 0..(MaxDay + SoonDays)}

NextNotify ==
    \/ \E due \in NotifyDues : add(Form(<<"a">>, "Medium", due))
    \/ \E id \in 1..MaxId : complete(id, today)
    \/ \E sort \in {"created", "due_date"} : index("all", sort, <<>>)
    \/ incomplete_tasks
    \/ Tick

SpecNotify == Init /\ [][NextNotify]_vars

(* The dashboard, over tables of completed tasks: one task completed on   *)
(* each day of a set of days up to tomorrow's UTC date, optionally a      *)
(* second completion on the latest of them and a pending task.  Each is   *)
(* the table after that many adds, with a complete on each of the days.   *)
DashTask(completed_at) ==
    [completed |-> completed_at # None, completed_at |-> completed_at,
     due_date |-> None, priority |-> "Medium", task |-> <<"a">>]

RECURSIVE DaySeq(_)
DaySeq(S) == IF S = {} THEN <<>> ELSE DaySeq(S \ {Max(S)}) \o <<<<Max(S)>>>>

DashStore(S, twice, pending) ==
    LET at == DaySeq(S)
            \o (IF twice /\ S # {} THEN <<<<Max(S)>>>> ELSE <<>>)
            \o (IF pending THEN <<None>> ELSE <<>>)
    IN  [i \in 1..Len(at) |-> DashTask(at[i])]

InitDash ==
    \E day \in 0..MaxDashDay :
        \E S \in SUBSET (0..(IF day < MaxDashDay THEN day + 1 ELSE MaxDashDay)) :
            \E twice \in BOOLEAN, pending \in BOOLEAN :
                /\ today = day
                /\ tasks = DashStore(S, twice, pending)
                /\ req = [op |-> "none"]
                /\ resp = [code |-> 0]

NextDash == dashboard

SpecDash == InitDash /\ [][NextDash]_vars

(* A step taken by a request handler: the calendar did not advance.       *)
RequestStep == today' = today

-----------------------------------------------------------------------------
(* C1: in every reachable state, every stored task has completed_at       *)
(* non-null if and only if its completed flag is true.                    *)
C1_CompletedAtIffCompleted ==
    \A i \in DOMAIN tasks : (tasks[i].completed_at # None) <=> tasks[i].completed

(* The last request toggled a completed task back to incomplete.          *)
C1_Witness ==
    /\ req.op = "complete"
    /\ resp.code = 302
    /\ req.id \in DOMAIN tasks
    /\ ~tasks[req.id].completed
    /\ \E j \in DOMAIN tasks : tasks[j].completed

(* C2: an add request whose due date is strictly before today creates no  *)
(* task and leaves the stored tasks exactly as they were, whatever the    *)
(* text and priority.                                                     *)
C2_PastDueAddRejected ==
    [][(/\ RequestStep
        /\ req'.op = "add"
        /\ req'.form.due_date.kind = "date"
        /\ req'.form.due_date.day < today) => tasks' = tasks]_vars

(* A past-dated add with an otherwise acceptable text was turned away.    *)
C2_Witness ==
    /\ req.op = "add"
    /\ req.form.due_date.kind = "date"
    /\ req.form.due_date.day < today
    /\ req.form.task = <<"a">>
    /\ resp = Redirect("index", "danger")
    /\ DOMAIN tasks # {}
    /\ NewId(tasks) <= MaxId

(* C3: an edit POST for an existing task whose due date is strictly       *)
(* before today leaves the stored task unchanged in every field.          *)
C3_PastDueEditRejected ==
    [][(/\ RequestStep
        /\ req'.op = "edit"
        /\ req'.method = "POST"
        /\ req'.id \in DOMAIN tasks
        /\ req'.form.due_date.kind = "date"
        /\ req'.form.due_date.day < today)
       => (tasks' = tasks /\ tasks'[req'.id] = tasks[req'.id])]_vars

(* A past-dated edit that submitted a new text and a new priority was     *)
(* turned away.                                                           *)
C3_Witness ==
    /\ req.op = "edit"
    /\ req.method = "POST"
    /\ resp = Redirect("edit", "danger")
    /\ req.id \in DOMAIN tasks
    /\ tasks[req.id].task # req.form.task
    /\ tasks[req.id].priority # req.form.priority

(* C6: in every state reachable by add and edit requests, the priority of *)
(* every stored task is one of High, Medium, Low.                         *)
C6_PriorityInDomain ==
    \A i \in DOMAIN tasks : tasks[i].priority \in Priorities

(* C7: an add request whose text is empty after trimming whitespace       *)
(* creates no task and leaves the stored tasks unchanged.                 *)
C7_BlankAddDropped ==
    [][(/\ RequestStep
        /\ req'.op = "add"
        /\ Strip(req'.form.task) = <<>>) => tasks' = tasks]_vars

(* C7 as amended: an add request whose text is the empty string creates   *)
(* no task and leaves the stored tasks unchanged.                         *)
C7_EmptyAddDropped ==
    [][(/\ RequestStep
        /\ req'.op = "add"
        /\ req'.form.task = <<>>) => tasks' = tasks]_vars

(* An add with an empty text and an acceptable due date was answered.     *)
C7_Witness ==
    /\ req.op = "add"
    /\ req.form.task = <<>>
    /\ req.form.due_date.kind = "date"
    /\ resp = Redirect("index", "none")
    /\ DOMAIN tasks # {}
    /\ NewId(tasks) <= MaxId

(* C8: a complete, delete or edit request for an id no stored task has is *)
(* answered not-found and leaves the stored tasks unchanged.              *)
C8_MissingIdNotFound ==
    [][(/\ RequestStep
        /\ req'.op \in {"complete", "delete", "edit"}
        /\ req'.id \notin DOMAIN tasks)
       => (tasks' = tasks /\ resp' = NotFound)]_vars

(* An edit POST for a missing id was answered 404 while tasks are stored. *)
C8_Witness ==
    /\ req.op = "edit"
    /\ req.method = "POST"
    /\ req.id \notin DOMAIN tasks
    /\ resp = NotFound
    /\ DOMAIN tasks # {}

-----------------------------------------------------------------------------
(* What the claims about the index listing mean by their words.           *)

(* needle occurs in text, letter case ignored.                            *)
ContainsCI(text, needle) ==
    \E k \in 0..(Len(text) - Len(needle)) :
        \A j \in 1..Len(needle) : Lower(text[k + j]) = Lower(needle[j])

(* The stored tasks that pass the request's status and search filters.    *)
PassingFilters ==
    {i \in DOMAIN tasks :
        /\ req.status = "completed" => tasks[i].completed
        /\ req.status = "pending" => ~tasks[i].completed
        /\ ContainsCI(tasks[i].task, Strip(req.search))}

(* The response lists exactly the tasks passing the filters, each once.   *)
ListsPassing ==
    /\ resp.code = 200
    /\ Len(resp.tasks) = Cardinality(PassingFilters)
    /\ Range(resp.tasks) = PassingFilters

PriorityRank(p) == CASE p = "High" -> 1 [] p = "Medium" -> 2 [] p = "Low" -> 3 [] OTHER -> 0

(* C4: in the index listing sorted by due date, every task without a due  *)
(* date comes after every task with one, and the dated tasks are in       *)
(* ascending date order, for every stored task set.                       *)
C4_DueDateSort ==
    (req.op = "index" /\ req.sort = "due_date") =>
        /\ ListsPassing
        /\ \A k, l \in 1..Len(resp.tasks) : k < l =>
              LET a == tasks[resp.tasks[k]].due_date
                  b == tasks[resp.tasks[l]].due_date
              IN  /\ a = None => b = None
                  /\ (a # None /\ b # None) => a[1] <= b[1]

(* C5: in the index listing sorted by priority, High comes before Medium  *)
(* before Low, within a priority incomplete comes before completed, and   *)
(* the listing holds exactly the tasks that pass the filters.             *)
C5_PrioritySort ==
    (req.op = "index" /\ req.sort = "priority") =>
        /\ ListsPassing
        /\ \A k, l \in 1..Len(resp.tasks) : k < l =>
              LET a == tasks[resp.tasks[k]]
                  b == tasks[resp.tasks[l]]
              IN  /\ PriorityRank(a.priority) <= PriorityRank(b.priority)
                  /\ a.priority = b.priority => (a.completed => b.completed)

(* C9: notification bucketing puts each pending task with a due date in   *)
(* at most one bucket: overdue iff due_date < today, due-today iff        *)
(* due_date = today, due-soon iff today < due_date <= today + 1; other    *)
(* tasks are in no bucket, and the counts are the bucket sizes.           *)
NotifiedAs(type) ==
    {resp.notify_tasks[k].id :
        k \in {n \in 1..Len(resp.notify_tasks) : resp.notify_tasks[n].type = type}}

PendingDue(P(_)) ==
    {i \in DOMAIN tasks :
        ~tasks[i].completed /\ tasks[i].due_date # None /\ P(tasks[i].due_date[1])}

C9_NotificationBuckets ==
    /\ (req.op = "index" /\ resp.code = 200) =>
          /\ NotifiedAs("overdue") = PendingDue(LAMBDA d : d < resp.today)
          /\ NotifiedAs("today") = PendingDue(LAMBDA d : d = resp.today)
          /\ NotifiedAs("soon") =
                PendingDue(LAMBDA d : resp.today < d /\ d <= resp.today + 1)
          /\ NotifiedAs("overdue") \cap NotifiedAs("today") = {}
          /\ NotifiedAs("overdue") \cap NotifiedAs("soon") = {}
          /\ NotifiedAs("today") \cap NotifiedAs("soon") = {}
          /\ resp.num_overdue = Cardinality(NotifiedAs("overdue"))
          /\ resp.num_due_today = Cardinality(NotifiedAs("today"))
          /\ resp.num_due_soon = Cardinality(NotifiedAs("soon"))
          /\ Len(resp.notify_tasks) =
                resp.num_overdue + resp.num_due_today + resp.num_due_soon
    /\ req.op = "incomplete_tasks" =>
          /\ resp.overdue_tasks = Cardinality(PendingDue(LAMBDA d : d < resp.today))
          /\ resp.due_today_tasks = Cardinality(PendingDue(LAMBDA d : d = resp.today))
          /\ resp.due_soon_tasks =
                Cardinality(PendingDue(LAMBDA d : resp.today < d /\ d <= resp.today + 1))

(* An index page, served after the calendar advanced, with one task      *)
(* overdue and one due tomorrow.                                          *)
C9_Witness ==
    /\ req.op = "index"
    /\ resp.code = 200
    /\ resp.num_overdue = 1
    /\ resp.num_due_soon = 1
    /\ resp.num_due_today = 0

(* C10: the dashboard streak is the number of consecutive days, counted   *)
(* backward from today within [today-6, today], that each have a task     *)
(* completed on that day, stopping at the first day with none; it is 0    *)
(* when today has none and never exceeds 7.                               *)
CompletedOn(d) ==
    \E i \in DOMAIN tasks : tasks[i].completed_at # None /\ tasks[i].completed_at[1] = d

C10_Streak ==
    req.op = "dashboard" =>
        /\ resp.streak =
              Cardinality({k \in 1..7 : \A j \in 0..(k - 1) : CompletedOn(today - j)})
        /\ ~CompletedOn(today) => resp.streak = 0
        /\ resp.streak <= 7

(* A dashboard whose streak fills the window while the day before the     *)
(* window has a completion too.                                           *)
C10_Witness ==
    /\ req.op = "dashboard"
    /\ resp.streak = 7
    /\ CompletedOn(today - 7)

=============================================================================
